---- MODULE Spec2Model ----
(***************************************************************************)
(* A model of src/python/main.py.                                          *)
(*                                                                         *)
(* SpecRetry runs one call of retry_operation against an operation whose   *)
(* outcome at each invocation is chosen freely (a result or an exception). *)
(* SpecMerge runs one call of merge_capabilities_with_uniqueness, one loop *)
(* iteration per step, on every pair of input lists within the bounds.     *)
(* SpecVersion runs get_next_version in one process (repeated calls) or in *)
(* two processes (one call each) sharing version.txt.                      *)
(* SpecMain runs main once: every remote call may succeed or fail, and the *)
(* merge runs inside manage_azure_context on the fetched capabilities and  *)
(* the one generated capability.                                           *)
(***************************************************************************)
EXTENDS Integers, Sequences, FiniteSets

VARIABLES
    \* ---- retry_operation (main.py 11-24)
    max_attempts,       \* the max_attempts argument
    initial_delay,      \* the delay_seconds argument as passed
    delay_seconds,      \* the local delay_seconds, doubled after each sleep
    attempt,            \* the loop variable of `for attempt in range(max_attempts)`
    rpc,                \* "loop" | "except" | "returned" | "raised"
    outcomes,           \* history: the outcome of each invocation of operation()
    sleeps,             \* history: the argument of each time.sleep call
    retval,             \* the value returned by the call
    raised,             \* the exception that left the call
    \* ---- merge_capabilities_with_uniqueness (main.py 581-688)
    existing_capabilities,
    new_capabilities,
    existing_names,     \* the set of names seen so far
    merged_capabilities,
    mpc,                \* "existing" | "new" | "count_check" | "validate" | "returned" | "raised"
    idx,                \* the loop index of the running loop (1-based)
    merge_error,        \* the ValueError that left the call, or NoError
    \* ---- get_next_version (main.py 73-83), run by nprocs processes
    nprocs,             \* how many processes share version.txt
    file_state,         \* version.txt: "absent" | "empty" (just truncated) | "int"
    file_value,         \* the integer in version.txt when file_state = "int"
    vstart,             \* the integer stored at the start (0 when the file is absent)
    vpc,                \* per process: "idle" | "open" | "write" | "return" | "raised"
    version,            \* per process: the local `version`
    returns,            \* per process, history: the values its calls returned
    \* ---- main (main.py 778-1042) and the functions it calls
    mpos,               \* where main is: the next call to make, or how it ended
    calls,              \* history: each call made, what its remote call did, its result
    capabilities,       \* main's capabilities[0], the name used for template and target
    generated,          \* manage_azure_context's new_capability: <<>> or <<cap>>
    saved,              \* history: the lists written to context-capabilities.json
    sent,               \* history: the lists passed to the context update
    solution_version_id,\* what review_target returned
    put_reported_ok     \* main printed 'Configuration API call completed successfully'

retryVars == <<max_attempts, initial_delay, delay_seconds, attempt, rpc,
               outcomes, sleeps, retval, raised>>
mergeVars == <<existing_capabilities, new_capabilities, existing_names,
               merged_capabilities, mpc, idx, merge_error>>
versionVars == <<nprocs, file_state, file_value, vstart, vpc, version, returns>>
mainVars == <<mpos, calls, capabilities, generated, saved, sent,
              solution_version_id, put_reported_ok>>
vars == <<retryVars, mergeVars, versionVars, mainVars>>
\* what a step of one component leaves alone
nonRetryVars == <<mergeVars, versionVars, mainVars>>
nonMergeVars == <<retryVars, versionVars, mainVars>>
nonVersionVars == <<retryVars, mergeVars, mainVars>>
nonMainVars == <<retryVars, versionVars>>

----------------------------------------------------------------------------
(* Bounds of the model *)

\* max_attempts ranges over -1 .. MaxAttemptsBound
MaxAttemptsBound == 4
\* len(existing_capabilities) + len(new_capabilities) <= MaxCaps
MaxCaps == 3
\* a single writer makes at most MaxCalls calls of get_next_version
MaxCalls == 3
\* version.txt starts absent or holding an integer in 0 .. MaxStored
MaxStored == 2

(* Program constants *)

\* def retry_operation(operation, max_attempts=3, delay_seconds=30)
DefaultMaxAttempts == 3
DefaultDelaySeconds == 30

----------------------------------------------------------------------------
(* Values *)

None == "None"
NoException == "NoException"
NoError == "NoError"

\* what operation() can return, and what it can raise
Results == {"r1", "r2"}
Exceptions == {"e1", "e2"}
Outcomes == [ok : {TRUE}, val : Results, exc : {NoException}]
              \cup [ok : {FALSE}, val : {None}, exc : Exceptions]

\* A capability as it comes in: a dict or an SDK object.  name "" stands for
\* a missing, None or empty name (cap.get('name', '') / getattr(cap, 'name', '')),
\* state for whether the record carries the deprecated state field.
Names == {"", "a", "b"}
Descriptions == {"d1", "d2", "d3"}
InCaps == [name : Names, description : Descriptions, state : BOOLEAN]

RECURSIVE Pow2(_)
Pow2(n) == IF n <= 0 THEN 1 ELSE 2 * Pow2(n - 1)

RECURSIVE SeqsUpTo(_, _)
\* all sequences over S of length <= n
SeqsUpTo(S, n) ==
    IF n = 0 THEN {<<>>}
    ELSE LET shorter == SeqsUpTo(S, n - 1)
         IN shorter \cup {Append(s, x) : s \in {t \in shorter : Len(t) = n - 1}, x \in S}

----------------------------------------------------------------------------
(* retry_operation *)

\* range(max_attempts) still has the value `attempt`
InRange(a, m) == a < m

IsLastAttempt_OffByOne(a, m) == a = m
\* if attempt == max_attempts - 1
IsLastAttempt(a, m) == a = m - 1

NextDelay_NoBackoff(d) == d
\* delay_seconds *= 2
NextDelay(d) == d * 2

RetryIdle ==
    /\ max_attempts = DefaultMaxAttempts
    /\ initial_delay = DefaultDelaySeconds
    /\ delay_seconds = DefaultDelaySeconds
    /\ attempt = 0
    /\ rpc = "returned"
    /\ outcomes = <<>>
    /\ sleeps = <<>>
    /\ retval = None
    /\ raised = NoException

RetryInit ==
    /\ max_attempts \in -1 .. MaxAttemptsBound
    /\ initial_delay \in {1, DefaultDelaySeconds}
    /\ delay_seconds = initial_delay
    /\ attempt = 0
    /\ rpc = "loop"
    /\ outcomes = <<>>
    /\ sleeps = <<>>
    /\ retval = None
    /\ raised = NoException

Invoke_NoReturn ==
    /\ rpc = "loop"
    /\ InRange(attempt, max_attempts)
    /\ \E o \in Outcomes :
        /\ outcomes' = Append(outcomes, o)
        /\ IF o.ok
           THEN /\ rpc' = "loop"
                /\ attempt' = attempt + 1
                /\ retval' = o.val
                /\ raised' = raised
           ELSE /\ retval' = retval
                /\ attempt' = attempt
                /\ IF IsLastAttempt(attempt, max_attempts)
                   THEN rpc' = "raised" /\ raised' = o.exc
                   ELSE rpc' = "except" /\ raised' = raised
    /\ UNCHANGED <<max_attempts, initial_delay, delay_seconds, sleeps>>
    /\ UNCHANGED nonRetryVars

\* try: return operation()
\* except Exception as e: if attempt == max_attempts - 1: raise
Invoke ==
    /\ rpc = "loop"
    /\ InRange(attempt, max_attempts)
    /\ \E o \in Outcomes :
        /\ outcomes' = Append(outcomes, o)
        /\ IF o.ok
           THEN /\ rpc' = "returned"
                /\ retval' = o.val
                /\ raised' = raised
           ELSE /\ retval' = retval
                /\ IF IsLastAttempt(attempt, max_attempts)
                   THEN rpc' = "raised" /\ raised' = o.exc
                   ELSE rpc' = "except" /\ raised' = raised
    /\ UNCHANGED <<max_attempts, initial_delay, delay_seconds, attempt, sleeps>>
    /\ UNCHANGED nonRetryVars

\* time.sleep(delay_seconds); delay_seconds *= 2; next iteration
Backoff ==
    /\ rpc = "except"
    /\ sleeps' = Append(sleeps, delay_seconds)
    /\ delay_seconds' = NextDelay(delay_seconds)
    /\ attempt' = attempt + 1
    /\ rpc' = "loop"
    /\ UNCHANGED <<max_attempts, initial_delay, outcomes, retval, raised>>
    /\ UNCHANGED nonRetryVars

\* the for loop runs out: the function falls off its end and returns None
FallOffEnd ==
    /\ rpc = "loop"
    /\ ~InRange(attempt, max_attempts)
    /\ rpc' = "returned"
    /\ retval' = None
    /\ UNCHANGED <<max_attempts, initial_delay, delay_seconds, attempt,
                   outcomes, sleeps, raised>>
    /\ UNCHANGED nonRetryVars

----------------------------------------------------------------------------
(* merge_capabilities_with_uniqueness *)

\* cap.get('name', '') / getattr(cap, 'name', '')
CapName(cap) == cap.name
\* cap.get('description', '') / getattr(cap, 'description', '')
CapDesc(cap) == cap.description

CapabilityDict_WithState(cap) ==
    [name |-> CapName(cap), description |-> CapDesc(cap), state |-> cap.state]
\* capability_dict = {"name": ..., "description": ...}: the state field is dropped
CapabilityDict(cap) == [name |-> CapName(cap), description |-> CapDesc(cap)]

KeepExisting_NoSeenCheck(cap_name, seen) == cap_name # ""
KeepExisting_Inverted(cap_name, seen) == cap_name # "" /\ cap_name \in seen
\* if cap_name and cap_name not in existing_names
KeepExisting(cap_name, seen) == cap_name # "" /\ cap_name \notin seen

KeepNew_Always(cap_name, seen) == TRUE
\* if cap_name not in existing_names
KeepNew(cap_name, seen) == cap_name \notin seen

CountCheckFails_AtLeast(merged, existing, new) == Len(merged) >= Len(existing) + Len(new)
\* if len(merged_capabilities) > expected_max
CountCheckFails(merged, existing, new) == Len(merged) > Len(existing) + Len(new)

MissingName_Never(cap) == FALSE
\* if not cap.get('name')
MissingName(cap) == cap.name = ""

MergeIdle ==
    /\ existing_capabilities = <<>>
    /\ new_capabilities = <<>>
    /\ existing_names = {}
    /\ merged_capabilities = <<>>
    /\ mpc = "returned"
    /\ idx = 1
    /\ merge_error = NoError

MergeInit ==
    /\ existing_capabilities \in SeqsUpTo(InCaps, MaxCaps)
    /\ new_capabilities \in SeqsUpTo(InCaps, MaxCaps - Len(existing_capabilities))
    /\ existing_names = {}
    /\ merged_capabilities = <<>>
    /\ mpc = "existing"
    /\ idx = 1
    /\ merge_error = NoError

ProcessExisting_AppendTwice ==
    /\ mpc = "existing"
    /\ idx <= Len(existing_capabilities)
    /\ LET cap == existing_capabilities[idx]
       IN IF KeepExisting(CapName(cap), existing_names)
          THEN /\ existing_names' = existing_names \cup {CapName(cap)}
               /\ merged_capabilities' =
                      Append(Append(merged_capabilities, CapabilityDict(cap)),
                             CapabilityDict(cap))
          ELSE UNCHANGED <<existing_names, merged_capabilities>>
    /\ idx' = idx + 1
    /\ UNCHANGED <<existing_capabilities, new_capabilities, mpc, merge_error>>
    /\ UNCHANGED nonMergeVars

\* one iteration of `for i, cap in enumerate(existing_capabilities)`
ProcessExisting ==
    /\ mpc = "existing"
    /\ idx <= Len(existing_capabilities)
    /\ LET cap == existing_capabilities[idx]
       IN IF KeepExisting(CapName(cap), existing_names)
          THEN /\ existing_names' = existing_names \cup {CapName(cap)}
               /\ merged_capabilities' = Append(merged_capabilities, CapabilityDict(cap))
          ELSE UNCHANGED <<existing_names, merged_capabilities>>
    /\ idx' = idx + 1
    /\ UNCHANGED <<existing_capabilities, new_capabilities, mpc, merge_error>>
    /\ UNCHANGED nonMergeVars

\* the loop over existing_capabilities is over
EndExisting ==
    /\ mpc = "existing"
    /\ idx > Len(existing_capabilities)
    /\ mpc' = "new"
    /\ idx' = 1
    /\ UNCHANGED <<existing_capabilities, new_capabilities, existing_names,
                   merged_capabilities, merge_error>>
    /\ UNCHANGED nonMergeVars

ProcessNew_Prepend ==
    /\ mpc = "new"
    /\ idx <= Len(new_capabilities)
    /\ LET cap == new_capabilities[idx]
       IN IF KeepNew(CapName(cap), existing_names)
          THEN /\ existing_names' = existing_names \cup {CapName(cap)}
               /\ merged_capabilities' = <<CapabilityDict(cap)>> \o merged_capabilities
          ELSE UNCHANGED <<existing_names, merged_capabilities>>
    /\ idx' = idx + 1
    /\ UNCHANGED <<existing_capabilities, new_capabilities, mpc, merge_error>>
    /\ UNCHANGED nonMergeVars

\* one iteration of `for i, cap in enumerate(new_capabilities)`
ProcessNew ==
    /\ mpc = "new"
    /\ idx <= Len(new_capabilities)
    /\ LET cap == new_capabilities[idx]
       IN IF KeepNew(CapName(cap), existing_names)
          THEN /\ existing_names' = existing_names \cup {CapName(cap)}
               /\ merged_capabilities' = Append(merged_capabilities, CapabilityDict(cap))
          ELSE UNCHANGED <<existing_names, merged_capabilities>>
    /\ idx' = idx + 1
    /\ UNCHANGED <<existing_capabilities, new_capabilities, mpc, merge_error>>
    /\ UNCHANGED nonMergeVars

\* the loop over new_capabilities is over
EndNew ==
    /\ mpc = "new"
    /\ idx > Len(new_capabilities)
    /\ mpc' = "count_check"
    /\ UNCHANGED <<existing_capabilities, new_capabilities, existing_names,
                   merged_capabilities, idx, merge_error>>
    /\ UNCHANGED nonMergeVars

\* expected_max = len(existing) + len(new); raise ValueError if exceeded
CountCheck ==
    /\ mpc = "count_check"
    /\ IF CountCheckFails(merged_capabilities, existing_capabilities, new_capabilities)
       THEN /\ mpc' = "raised"
            /\ merge_error' = "Capability merge validation failed"
            /\ idx' = idx
       ELSE /\ mpc' = "validate"
            /\ merge_error' = merge_error
            /\ idx' = 1
    /\ UNCHANGED <<existing_capabilities, new_capabilities, existing_names,
                   merged_capabilities>>
    /\ UNCHANGED nonMergeVars

\* one iteration of `for i, cap in enumerate(merged_capabilities)`
\* (every entry is a dict built by the two loops, so the isinstance check passes)
ValidateEntry ==
    /\ mpc = "validate"
    /\ idx <= Len(merged_capabilities)
    /\ IF MissingName(merged_capabilities[idx])
       THEN /\ mpc' = "raised"
            /\ merge_error' = "Capability missing name"
            /\ idx' = idx
       ELSE /\ mpc' = mpc
            /\ merge_error' = merge_error
            /\ idx' = idx + 1
    /\ UNCHANGED <<existing_capabilities, new_capabilities, existing_names,
                   merged_capabilities>>
    /\ UNCHANGED nonMergeVars

\* return merged_capabilities
ReturnMerged ==
    /\ mpc = "validate"
    /\ idx > Len(merged_capabilities)
    /\ mpc' = "returned"
    /\ UNCHANGED <<existing_capabilities, new_capabilities, existing_names,
                   merged_capabilities, idx, merge_error>>
    /\ UNCHANGED nonMergeVars

----------------------------------------------------------------------------
(* get_next_version *)

Procs == 1 .. nprocs

\* a single writer calls repeatedly; each of two concurrent processes calls once
CallsAllowed == IF nprocs = 1 THEN MaxCalls ELSE 1

NextStored_NoIncrement(v) == v
NextStored_Skip(v) == v + 2
\* f.write(str(version + 1))
NextStored(v) == v + 1

VersionIdle ==
    /\ nprocs = 1
    /\ file_state = "absent"
    /\ file_value = 0
    /\ vstart = 0
    /\ vpc = [p \in 1 .. 2 |-> "idle"]
    /\ version = [p \in 1 .. 2 |-> 0]
    /\ returns = [p \in 1 .. 2 |-> <<>>]

VersionInit ==
    /\ nprocs \in {1, 2}
    /\ file_state \in {"absent", "int"}
    /\ file_value \in 0 .. MaxStored
    /\ file_state = "absent" => file_value = 0
    /\ vstart = file_value
    /\ vpc = [p \in 1 .. 2 |-> "idle"]
    /\ version = [p \in 1 .. 2 |-> 0]
    /\ returns = [p \in 1 .. 2 |-> <<>>]

\* with open('version.txt', 'r') as f: version = int(f.read().strip())
\* except FileNotFoundError: version = 0
\* (int('') on a file another process has just truncated is a ValueError,
\* which is not caught)
ReadVersion(p) ==
    /\ vpc[p] = "idle"
    /\ Len(returns[p]) < CallsAllowed
    /\ IF file_state = "empty"
       THEN /\ vpc' = [vpc EXCEPT ![p] = "raised"]
            /\ version' = version
       ELSE /\ vpc' = [vpc EXCEPT ![p] = "open"]
            /\ version' = [version EXCEPT ![p] =
                              IF file_state = "absent" THEN 0 ELSE file_value]
    /\ UNCHANGED <<nprocs, file_state, file_value, vstart, returns>>
    /\ UNCHANGED nonVersionVars

\* open('version.txt', 'w'): the file is created or truncated
OpenForWrite(p) ==
    /\ vpc[p] = "open"
    /\ file_state' = "empty"
    /\ file_value' = 0
    /\ vpc' = [vpc EXCEPT ![p] = "write"]
    /\ UNCHANGED <<nprocs, vstart, version, returns>>
    /\ UNCHANGED nonVersionVars

\* f.write(str(version + 1)) and the close at the end of the with block
WriteVersion(p) ==
    /\ vpc[p] = "write"
    /\ file_state' = "int"
    /\ file_value' = NextStored(version[p])
    /\ vpc' = [vpc EXCEPT ![p] = "return"]
    /\ UNCHANGED <<nprocs, vstart, version, returns>>
    /\ UNCHANGED nonVersionVars

\* return version
ReturnVersion(p) ==
    /\ vpc[p] = "return"
    /\ returns' = [returns EXCEPT ![p] = Append(@, version[p])]
    /\ vpc' = [vpc EXCEPT ![p] = "idle"]
    /\ UNCHANGED <<nprocs, file_state, file_value, vstart, version>>
    /\ UNCHANGED nonVersionVars

----------------------------------------------------------------------------
(* The remote call functions and main *)

\* SINGLE_CAPABILITY_NAME = "sdkexamples-soap"
SingleCapabilityName == "sdkexamples-soap"

\* What a remote call did.  An SDK call returns (raised FALSE), raises an
\* HttpResponseError with a status code (raised, http) or raises another
\* exception.  A requests call raises (also credential.get_token before it)
\* or returns a response with a status code (http, not raised).  body is the
\* shape of a response's body where the code reads it, NoBody elsewhere.
NoBody == "NoBody"
Returned == [raised |-> FALSE, http |-> FALSE, status |-> 0, body |-> NoBody]
HttpError(code) == [raised |-> TRUE, http |-> TRUE, status |-> code, body |-> NoBody]
OtherException == [raised |-> TRUE, http |-> FALSE, status |-> 0, body |-> NoBody]
Response(code) == [raised |-> FALSE, http |-> TRUE, status |-> code, body |-> NoBody]

StatusCodes == {200, 201, 202, 204, 404, 500}
SdkOutcomes == {Returned, HttpError(404), HttpError(500), OtherException}
HttpOutcomes == {OtherException} \cup {Response(code) : code \in StatusCodes}

\* The body of a GET response, which get_configuration_api_call parses and
\* shows for status 200 only:
\*   "values"          {"properties": {"values": ...}}
\*   "no_properties"   a JSON object without 'properties'
\*   "not_json"        text that response.json() cannot decode
\*   "null_properties" {"properties": null}
\*   "null"            the JSON value null
Bodies == {"values", "no_properties", "not_json", "null_properties", "null"}
ResponseWithBody(code, b) ==
    [raised |-> FALSE, http |-> TRUE, status |-> code, body |-> b]
GetOutcomes ==
    {OtherException}
    \cup {Response(code) : code \in StatusCodes \ {200}}
    \cup {ResponseWithBody(200, b) : b \in Bodies}

\* retry_operation(operation) with its default arguments, the operation failing
\* on its first `failures` attempts: the call raises when all attempts fail
Retried(failures) ==
    IF failures >= DefaultMaxAttempts THEN OtherException ELSE Returned
RetriedOutcomes == {Retried(f) : f \in 0 .. DefaultMaxAttempts}

\* generate_single_random_capability: the name is never empty and the
\* description is that of the capability type in the name
GenNames == Names \ {""}
GenDescription(n) == IF n = "a" THEN "d1" ELSE "d2"
GeneratedCaps ==
    {[name |-> n, description |-> GenDescription(n), state |-> FALSE] : n \in GenNames}

Result(res, val) == [result |-> res, value |-> val]

CatchLogReraise_Swallow(remote, val) == Result("returned", val)
\* try: return <remote call> / except Exception as e: print(...); raise
CatchLogReraise(remote, val) ==
    IF remote.raised THEN Result("raised", "exception") ELSE Result("returned", val)

\* get_existing_context: [] for HTTP 404 and for any non-HTTP exception, the
\* HttpResponseError again for another status code
GetExistingContextResult(remote) ==
    IF ~remote.raised THEN Result("returned", "capabilities")
    ELSE IF remote.http /\ remote.status # 404 THEN Result("raised", "exception")
    ELSE Result("returned", "[]")

\* response.raise_for_status(): HTTPError for 4xx and 5xx
RaiseForStatus(code) == 400 <= code /\ code < 600

\* create_configuration_api_call
CreateConfigurationResult(remote) ==
    IF remote.raised THEN Result("raised", "exception")
    ELSE IF remote.status \in {200, 201, 202} THEN Result("returned", "response")
    ELSE IF RaiseForStatus(remote.status) THEN Result("raised", "exception")
    ELSE Result("returned", None)

\* if 'properties' in response_json and 'values' in response_json['properties']:
\* `in` raises TypeError on None; json.JSONDecodeError alone is caught there
DisplayRaises(b) ==
    \/ b = "null"
    \/ b = "null_properties"

\* get_configuration_api_call: an exception anywhere in its try, the one of
\* showing the body included, ends in `return None`
GetConfigurationResult(remote) ==
    IF remote.raised THEN Result("returned", None)
    ELSE IF remote.status \in {200}
         THEN IF DisplayRaises(remote.body) THEN Result("returned", None)
              ELSE Result("returned", "response")
    ELSE Result("returned", None)

ReviewTargetResult_NoIdCheck(remote, version_id) ==
    IF remote.raised THEN Result("raised", "exception")
    ELSE Result("returned", version_id)
\* review_target: the id of the review response, ValueError when it has none
ReviewTargetResult(remote, version_id) ==
    IF remote.raised THEN Result("raised", "exception")
    ELSE IF version_id # "" THEN Result("returned", version_id)
    ELSE Result("raised", "exception")

\* main 831-857: the name of the last capability of the context result, or a
\* newly generated one
SelectCapability(context_capabilities, fresh) ==
    IF context_capabilities # <<>>
       /\ context_capabilities[Len(context_capabilities)].name # ""
    THEN context_capabilities[Len(context_capabilities)].name
    ELSE fresh

\* main 865-867
FinalCapability(c) == IF c = "" THEN SingleCapabilityName ELSE c

Logged(fn, remote, res) ==
    Append(calls, [fn |-> fn, raised |-> remote.raised, http |-> remote.http,
                   status |-> remote.status, body |-> remote.body,
                   result |-> res.result, value |-> res.value])

MainIdle ==
    /\ mpos = "completed"
    /\ calls = <<>>
    /\ capabilities = None
    /\ generated = <<>>
    /\ saved = <<>>
    /\ sent = <<>>
    /\ solution_version_id = None
    /\ put_reported_ok = FALSE

MainInit ==
    /\ mpos = "start"
    /\ calls = <<>>
    /\ capabilities = None
    /\ generated = <<>>
    /\ saved = <<>>
    /\ sent = <<>>
    /\ solution_version_id = None
    /\ put_reported_ok = FALSE

\* the locals of merge_capabilities_with_uniqueness are gone
MergeLocalsDropped ==
    /\ existing_capabilities' = <<>>
    /\ new_capabilities' = <<>>
    /\ existing_names' = {}
    /\ merged_capabilities' = <<>>
    /\ mpc' = "returned"
    /\ idx' = 1
    /\ merge_error' = NoError

\* main 858-862: context management failed, a new random capability is used
FallbackCapability ==
    \E n \in GenNames : capabilities' = FinalCapability(n)

\* main 784-811: the subscription id and the credential (tried twice)
Authenticate ==
    /\ mpos = "start"
    /\ \E subscription_set, first_ok, second_ok \in BOOLEAN :
        mpos' = IF subscription_set /\ (first_ok \/ second_ok)
                THEN "context" ELSE "returned"
    /\ UNCHANGED <<calls, capabilities, generated, saved, sent,
                   solution_version_id, put_reported_ok>>
    /\ UNCHANGED <<mergeVars, nonMainVars>>

\* manage_azure_context 754-761: fetch the context, generate one capability and
\* call the merge on them
GetExistingContext ==
    /\ mpos = "context"
    /\ \E remote \in SdkOutcomes, caps \in SeqsUpTo(InCaps, MaxCaps - 1),
          gen \in GeneratedCaps :
        LET res == GetExistingContextResult(remote)
        IN /\ remote.raised => caps = <<>>
           /\ calls' = Logged("get_existing_context", remote, res)
           /\ IF res.result = "raised"
              THEN /\ FallbackCapability
                   /\ mpos' = "schema"
                   /\ UNCHANGED <<generated, mergeVars>>
              ELSE /\ existing_capabilities' = caps
                   /\ new_capabilities' = <<gen>>
                   /\ existing_names' = {}
                   /\ merged_capabilities' = <<>>
                   /\ mpc' = "existing"
                   /\ idx' = 1
                   /\ merge_error' = NoError
                   /\ generated' = <<gen>>
                   /\ mpos' = "merge"
                   /\ UNCHANGED capabilities
    /\ UNCHANGED <<saved, sent, solution_version_id, put_reported_ok>>
    /\ UNCHANGED nonMainVars

\* manage_azure_context 761-764: the merge is over; its ValueError goes up to
\* main, its list is written to context-capabilities.json
SaveCapabilities ==
    /\ mpos = "merge"
    /\ mpc \in {"returned", "raised"}
    /\ IF mpc = "raised"
       THEN /\ calls' = Logged("merge_capabilities_with_uniqueness", Returned,
                               Result("raised", "exception"))
            /\ FallbackCapability
            /\ mpos' = "schema"
            /\ MergeLocalsDropped
            /\ UNCHANGED saved
       ELSE \E write_ok \in BOOLEAN :
              IF write_ok
              THEN /\ saved' = Append(saved, merged_capabilities)
                   /\ mpos' = "update"
                   /\ UNCHANGED <<calls, capabilities, mergeVars>>
              ELSE /\ calls' = Logged("save_capabilities_to_json", Returned,
                                      Result("raised", "exception"))
                   /\ FallbackCapability
                   /\ mpos' = "schema"
                   /\ MergeLocalsDropped
                   /\ UNCHANGED saved
    /\ UNCHANGED <<generated, sent, solution_version_id, put_reported_ok>>
    /\ UNCHANGED nonMainVars

\* create_or_update_context_with_hierarchies, then main 823-867: the capability
\* for all resources is the last one of the context result (the service
\* answers with the list it was sent, or with no capabilities)
UpdateContext ==
    /\ mpos = "update"
    /\ sent' = Append(sent, merged_capabilities)
    /\ \E remote \in RetriedOutcomes, fresh \in GenNames,
          context_capabilities \in {merged_capabilities, <<>>} :
        LET res == CatchLogReraise(remote, "context")
        IN /\ calls' = Logged("create_or_update_context_with_hierarchies", remote, res)
           /\ IF res.result = "raised"
              THEN FallbackCapability
              ELSE capabilities' =
                      FinalCapability(SelectCapability(context_capabilities, fresh))
    /\ mpos' = "schema"
    /\ MergeLocalsDropped
    /\ UNCHANGED <<generated, saved, solution_version_id, put_reported_ok>>
    /\ UNCHANGED nonMainVars

\* a step of main that calls one catch-log-reraise function and leaves on its
\* exception
MainCall(fn, remotes, val, next, failed) ==
    /\ \E remote \in remotes :
        LET res == CatchLogReraise(remote, val)
        IN /\ calls' = Logged(fn, remote, res)
           /\ mpos' = IF res.result = "raised" THEN failed ELSE next
    /\ UNCHANGED <<capabilities, generated, saved, sent, solution_version_id,
                   put_reported_ok>>
    /\ UNCHANGED <<mergeVars, nonMainVars>>

\* main 876-889
CreateSchema ==
    /\ mpos = "schema"
    /\ MainCall("create_schema", SdkOutcomes, "schema",
                "schema_version", "returned")

CreateSchemaVersion ==
    /\ mpos = "schema_version"
    /\ MainCall("create_schema_version", SdkOutcomes,
                "schema_version", "template", "returned")

\* main 894-921
CreateSolutionTemplate ==
    /\ mpos = "template"
    /\ MainCall("create_solution_template", SdkOutcomes,
                "solution_template", "template_version", "returned")

\* main 903-911: the version id is read off the result; a result whose
\* properties have neither the attribute nor a get method raises there
CreateSolutionTemplateVersion ==
    /\ mpos = "template_version"
    /\ \E remote \in SdkOutcomes, shape \in {"attribute", "dict", "neither"} :
        LET res == CatchLogReraise(remote, "solution_template_version")
        IN /\ calls' = Logged("create_solution_template_version", remote, res)
           /\ mpos' = IF res.result = "raised" \/ shape = "neither"
                      THEN "returned" ELSE "target"
    /\ UNCHANGED <<capabilities, generated, saved, sent, solution_version_id,
                   put_reported_ok>>
    /\ UNCHANGED <<mergeVars, nonMainVars>>

CreateTarget ==
    /\ mpos = "target"
    /\ MainCall("create_target", RetriedOutcomes, "target",
                "config_put", "returned")

ConfigurationPut_StopOnFailure ==
    /\ mpos = "config_put"
    /\ \E remote \in HttpOutcomes :
        LET res == CreateConfigurationResult(remote)
        IN /\ calls' = Logged("create_configuration_api_call", remote, res)
           /\ mpos' = IF res.result = "raised" THEN "caught" ELSE "config_get"
           /\ put_reported_ok' = (res.result = "returned")
    /\ UNCHANGED <<capabilities, generated, saved, sent, solution_version_id>>
    /\ UNCHANGED <<mergeVars, nonMainVars>>

\* main 927-961, 983-985: the PUT; on its exception main goes on to the review
ConfigurationPut ==
    /\ mpos = "config_put"
    /\ \E remote \in HttpOutcomes :
        LET res == CreateConfigurationResult(remote)
        IN /\ calls' = Logged("create_configuration_api_call", remote, res)
           /\ mpos' = IF res.result = "raised" THEN "review" ELSE "config_get"
           /\ put_reported_ok' = (res.result = "returned")
    /\ UNCHANGED <<capabilities, generated, saved, sent, solution_version_id>>
    /\ UNCHANGED <<mergeVars, nonMainVars>>

\* main 967-981: the GET; main goes on whatever it gives
ConfigurationGet ==
    /\ mpos = "config_get"
    /\ \E remote \in GetOutcomes :
        LET res == GetConfigurationResult(remote)
        IN /\ calls' = Logged("get_configuration_api_call", remote, res)
           /\ mpos' = "review"
    /\ UNCHANGED <<capabilities, generated, saved, sent, solution_version_id,
                   put_reported_ok>>
    /\ UNCHANGED <<mergeVars, nonMainVars>>

\* main 993-998: an exception of review_target ends main in its outer handler
ReviewTarget ==
    /\ mpos = "review"
    /\ \E remote \in RetriedOutcomes, version_id \in {"", "vid"} :
        LET res == ReviewTargetResult(remote, version_id)
        IN /\ calls' = Logged("review_target", remote, res)
           /\ IF res.result = "raised"
              THEN mpos' = "caught" /\ UNCHANGED solution_version_id
              ELSE mpos' = "publish" /\ solution_version_id' = res.value
    /\ UNCHANGED <<capabilities, generated, saved, sent, put_reported_ok>>
    /\ UNCHANGED <<mergeVars, nonMainVars>>

\* main 1023-1028
PublishTarget ==
    /\ mpos = "publish"
    /\ MainCall("publish_target", RetriedOutcomes, "published",
                "install", "caught")

\* main 1031-1036
InstallTarget ==
    /\ mpos = "install"
    /\ MainCall("install_target", RetriedOutcomes, "installed",
                "completed", "caught")

----------------------------------------------------------------------------
(* Specifications *)

InitRetry == RetryInit /\ MergeIdle /\ VersionIdle /\ MainIdle
NextRetry == Invoke \/ Backoff \/ FallOffEnd
SpecRetry == InitRetry /\ [][NextRetry]_vars

InitMerge == MergeInit /\ RetryIdle /\ VersionIdle /\ MainIdle
NextMerge ==
    \/ ProcessExisting
    \/ EndExisting
    \/ ProcessNew
    \/ EndNew
    \/ CountCheck
    \/ ValidateEntry
    \/ ReturnMerged
SpecMerge == InitMerge /\ [][NextMerge]_vars

InitVersion == VersionInit /\ RetryIdle /\ MergeIdle /\ MainIdle
NextVersion ==
    \/ \E p \in Procs : ReadVersion(p)
    \/ \E p \in Procs : OpenForWrite(p)
    \/ \E p \in Procs : WriteVersion(p)
    \/ \E p \in Procs : ReturnVersion(p)
SpecVersion == InitVersion /\ [][NextVersion]_vars

\* one run of main; the merge runs inside manage_azure_context
InitMain == MainInit /\ RetryIdle /\ MergeIdle /\ VersionIdle
NextMain ==
    \/ Authenticate
    \/ GetExistingContext
    \/ ProcessExisting
    \/ EndExisting
    \/ ProcessNew
    \/ EndNew
    \/ CountCheck
    \/ ValidateEntry
    \/ ReturnMerged
    \/ SaveCapabilities
    \/ UpdateContext
    \/ CreateSchema
    \/ CreateSchemaVersion
    \/ CreateSolutionTemplate
    \/ CreateSolutionTemplateVersion
    \/ CreateTarget
    \/ ConfigurationPut
    \/ ConfigurationGet
    \/ ReviewTarget
    \/ PublishTarget
    \/ InstallTarget
SpecMain == InitMain /\ [][NextMain]_vars

Init == InitRetry \/ InitMerge \/ InitVersion \/ InitMain
Next == NextRetry \/ NextMerge \/ NextVersion \/ NextMain
Spec == Init /\ [][Next]_vars

----------------------------------------------------------------------------
(* Properties of retry_operation, checked under SpecRetry *)

RetryDone == rpc \in {"returned", "raised"}
AllFailed == \A k \in 1 .. Len(outcomes) : ~outcomes[k].ok

\* C1: when the operation fails f times and then succeeds, 0 <= f < max_attempts,
\* the call returns the value of the successful attempt, has invoked the
\* operation exactly f+1 times and has slept exactly f times, the k-th sleep
\* lasting delay_seconds * 2^(k-1).
C1_FailThenSucceed ==
    \A f \in 0 .. (max_attempts - 1) :
        ( /\ Len(outcomes) >= f + 1
          /\ \A k \in 1 .. f : ~outcomes[k].ok
          /\ outcomes[f + 1].ok )
        => /\ rpc = "returned"
           /\ retval = outcomes[f + 1].val
           /\ Len(outcomes) = f + 1
           /\ Len(sleeps) = f
           /\ \A k \in 1 .. f : sleeps[k] = initial_delay * Pow2(k - 1)

\* two failures, then a success on the third and last attempt (the spec's example)
C1_Witness ==
    /\ rpc = "returned"
    /\ max_attempts = DefaultMaxAttempts
    /\ initial_delay = DefaultDelaySeconds
    /\ Len(outcomes) = 3
    /\ ~outcomes[1].ok /\ ~outcomes[2].ok /\ outcomes[3].ok
    /\ retval = outcomes[3].val
    /\ sleeps = <<DefaultDelaySeconds, 2 * DefaultDelaySeconds>>

\* C2: with max_attempts >= 1 and an operation that fails on every attempt, the
\* operation is invoked exactly max_attempts times, the call sleeps exactly
\* max_attempts - 1 times (never after the final failure) and then the exception
\* of the final attempt leaves the call unchanged.
C2_AlwaysFailing ==
    (max_attempts >= 1 /\ AllFailed)
    => /\ Len(outcomes) <= max_attempts
       /\ Len(sleeps) <= max_attempts - 1
       /\ rpc # "returned"
       /\ (Len(outcomes) = max_attempts => rpc = "raised")
       /\ rpc = "raised"
          => /\ Len(outcomes) = max_attempts
             /\ Len(sleeps) = max_attempts - 1
             /\ raised = outcomes[Len(outcomes)].exc

\* three failures, the last one raising another exception than the first
C2_Witness ==
    /\ rpc = "raised"
    /\ max_attempts = DefaultMaxAttempts
    /\ AllFailed
    /\ Len(outcomes) = 3
    /\ outcomes[1].exc # outcomes[3].exc
    /\ raised = outcomes[3].exc
    /\ Len(sleeps) = 2

\* C3: as soon as one attempt succeeds the call returns that attempt's result:
\* a success is always the last invocation, the call is over with its value,
\* and every sleep happened before it.
C3_SuccessEndsTheCall ==
    \A k \in 1 .. Len(outcomes) :
        outcomes[k].ok
        => /\ k = Len(outcomes)
           /\ rpc = "returned"
           /\ retval = outcomes[k].val
           /\ Len(sleeps) = k - 1
           /\ attempt = k - 1

\* a success on the second attempt while attempts remain
C3_Witness ==
    /\ rpc = "returned"
    /\ Len(outcomes) = 2
    /\ outcomes[2].ok
    /\ max_attempts > 2
    /\ Len(sleeps) = 1

\* C4: a call with max_attempts <= 0 ends in an error: it never returns normally.
C4_NonPositiveAttemptsIsError ==
    (max_attempts <= 0 /\ RetryDone) => rpc = "raised"

----------------------------------------------------------------------------
(* Properties of merge_capabilities_with_uniqueness, checked under SpecMerge *)

MergeDone == mpc \in {"returned", "raised"}
LoopsDone == mpc \notin {"existing", "new"}
AllNamed(caps) == \A k \in DOMAIN caps : caps[k].name # ""
NamesOf(caps) == {caps[k].name : k \in DOMAIN caps}
Distinct(caps) ==
    \A i, j \in DOMAIN caps : i # j => caps[i].name # caps[j].name
\* the {name, description} record of an incoming record
Projected(cap) == [name |-> cap.name, description |-> cap.description]
Holds(caps, entry) == \E j \in DOMAIN caps : caps[j] = entry
FirstOfName(caps, k) == \A j \in 1 .. (k - 1) : caps[j].name # caps[k].name

\* C5 as stated: for non-empty-name inputs, every existing entry whose name is
\* no name of incoming is kept with its name and description.
C5_Original ==
    (MergeDone /\ AllNamed(existing_capabilities) /\ AllNamed(new_capabilities))
    => /\ mpc = "returned"
       /\ \A k \in DOMAIN existing_capabilities :
            existing_capabilities[k].name \notin NamesOf(new_capabilities)
            => Holds(merged_capabilities, Projected(existing_capabilities[k]))

\* C5 as amended: for non-empty-name inputs, every existing entry whose name is
\* no name of incoming and no name of an earlier existing entry is kept with
\* its name and description.
C5_ExistingKept ==
    (MergeDone /\ AllNamed(existing_capabilities) /\ AllNamed(new_capabilities))
    => /\ mpc = "returned"
       /\ \A k \in DOMAIN existing_capabilities :
            ( /\ existing_capabilities[k].name \notin NamesOf(new_capabilities)
              /\ FirstOfName(existing_capabilities, k) )
            => Holds(merged_capabilities, Projected(existing_capabilities[k]))

\* existing [a, b], incoming [a]: b, which carries a state field, is in no
\* incoming record and is kept beside a
C5_Witness ==
    /\ mpc = "returned"
    /\ Len(existing_capabilities) = 2
    /\ Len(new_capabilities) = 1
    /\ existing_capabilities[1].name = "a"
    /\ existing_capabilities[2].name = "b"
    /\ existing_capabilities[2].state
    /\ new_capabilities[1].name = "a"
    /\ Len(merged_capabilities) = 2

\* C6 as stated: with an empty incoming list the call returns the existing
\* list projected to {name, description}, for every existing list.
C6_Original ==
    (MergeDone /\ new_capabilities = <<>>)
    => /\ mpc = "returned"
       /\ merged_capabilities =
            [k \in 1 .. Len(existing_capabilities) |->
                Projected(existing_capabilities[k])]

\* C6 as amended: the same, for every existing list whose names are non-empty
\* and pairwise different.
C6_EmptyIncoming ==
    ( /\ MergeDone
      /\ new_capabilities = <<>>
      /\ AllNamed(existing_capabilities)
      /\ Distinct(existing_capabilities) )
    => /\ mpc = "returned"
       /\ merged_capabilities =
            [k \in 1 .. Len(existing_capabilities) |->
                Projected(existing_capabilities[k])]

\* an existing list of two names, one record carrying a state field
C6_Witness ==
    /\ mpc = "returned"
    /\ new_capabilities = <<>>
    /\ Len(existing_capabilities) = 2
    /\ existing_capabilities[1].name = "b"
    /\ existing_capabilities[2].name = "a"
    /\ existing_capabilities[1].state
    /\ Len(merged_capabilities) = 2

\* C7: an incoming record whose name is the name of a retained existing entry
\* is dropped: once both loops are over the merged list holds exactly one
\* entry of that name, the retained existing entry with its own description.
\* The spec's example: existing [a:d1], incoming [a:d2, b:d3] gives [a:d1, b:d3].
C7_ExistingWins ==
    /\ LoopsDone
       => \A k \in DOMAIN new_capabilities :
            \A e \in DOMAIN existing_capabilities :
                ( /\ existing_capabilities[e].name # ""
                  /\ FirstOfName(existing_capabilities, e)
                  /\ new_capabilities[k].name = existing_capabilities[e].name )
                => /\ Holds(merged_capabilities, Projected(existing_capabilities[e]))
                   /\ Cardinality({j \in DOMAIN merged_capabilities :
                         merged_capabilities[j].name = new_capabilities[k].name}) = 1
    /\ ( /\ MergeDone
         /\ Len(existing_capabilities) = 1
         /\ Projected(existing_capabilities[1]) = [name |-> "a", description |-> "d1"]
         /\ Len(new_capabilities) = 2
         /\ Projected(new_capabilities[1]) = [name |-> "a", description |-> "d2"]
         /\ Projected(new_capabilities[2]) = [name |-> "b", description |-> "d3"] )
       => /\ mpc = "returned"
          /\ merged_capabilities = << [name |-> "a", description |-> "d1"],
                                      [name |-> "b", description |-> "d3"] >>

\* the spec's example has returned
C7_Witness ==
    /\ mpc = "returned"
    /\ Len(existing_capabilities) = 1
    /\ Projected(existing_capabilities[1]) = [name |-> "a", description |-> "d1"]
    /\ Len(new_capabilities) = 2
    /\ Projected(new_capabilities[1]) = [name |-> "a", description |-> "d2"]
    /\ Projected(new_capabilities[2]) = [name |-> "b", description |-> "d3"]
    /\ Len(merged_capabilities) = 2

\* C8: a step of the loop over incoming appends a record to the merged list
\* only when the record's name is non-empty and not yet seen.
C8_NewAppendedOnlyIfNamed ==
    [][ (mpc = "new" /\ merged_capabilities' # merged_capabilities)
        => /\ new_capabilities[idx].name # ""
           /\ new_capabilities[idx].name \notin existing_names ]_vars

\* C9: no two entries of the merged list have the same name, at any point of
\* the call and so in every list it returns, for all inputs.
C9_UniqueNames == Distinct(merged_capabilities)

\* a name three times in the inputs, twice inside existing, once in the result
C9_Witness ==
    /\ mpc = "returned"
    /\ Len(existing_capabilities) = 2
    /\ Len(new_capabilities) = 1
    /\ existing_capabilities[1].name = "a"
    /\ existing_capabilities[2].name = "a"
    /\ new_capabilities[1].name = "a"
    /\ Len(merged_capabilities) = 1

\* C10: the merged list is never longer than len(existing) + len(incoming),
\* at any point of the call and so for every list it returns.
C10_LengthBound ==
    Len(merged_capabilities) <= Len(existing_capabilities) + Len(new_capabilities)

\* a returned list as long as both inputs together
C10_Witness ==
    /\ mpc = "returned"
    /\ Len(existing_capabilities) = 1
    /\ Len(new_capabilities) = 1
    /\ Len(merged_capabilities) = 2

\* C11: every entry of a returned list has a non-empty name; a call whose merged
\* list holds an entry with an empty name ends with the 'Capability missing
\* name' error instead of returning.
C11_ReturnedEntriesNamed ==
    /\ mpc = "returned" => AllNamed(merged_capabilities)
    /\ (MergeDone /\ ~AllNamed(merged_capabilities))
       => (mpc = "raised" /\ merge_error = "Capability missing name")

\* a merged list with an empty-named entry behind a named one: the call raised
C11_Witness ==
    /\ mpc = "raised"
    /\ merge_error = "Capability missing name"
    /\ Len(merged_capabilities) = 2
    /\ merged_capabilities[1].name = "a"
    /\ merged_capabilities[2].name = ""

\* where an entry of the merged list comes from: the first record of that name
\* in existing when existing retains the name, else the first one in incoming
FromExisting(entry) ==
    entry.name # "" /\ entry.name \in NamesOf(existing_capabilities)
OriginIn(caps, entry) ==
    CHOOSE k \in DOMAIN caps :
        caps[k].name = entry.name /\ FirstOfName(caps, k)

\* C12: in the merged list the entries taken from existing keep their order
\* in existing, the entries taken from incoming keep their order in incoming,
\* and every entry taken from existing comes before every entry from incoming.
C12_OrderPreserved ==
    LoopsDone =>
        \A i, j \in DOMAIN merged_capabilities :
            i < j =>
                LET a == merged_capabilities[i]
                    b == merged_capabilities[j]
                IN /\ ~(~FromExisting(a) /\ FromExisting(b))
                   /\ (FromExisting(a) /\ FromExisting(b))
                      => OriginIn(existing_capabilities, a)
                           < OriginIn(existing_capabilities, b)
                   /\ (~FromExisting(a) /\ ~FromExisting(b))
                      => OriginIn(new_capabilities, a)
                           < OriginIn(new_capabilities, b)

\* existing [b], incoming [b, a]: b from existing, then a from incoming
C12_Witness ==
    /\ mpc = "returned"
    /\ Len(existing_capabilities) = 1
    /\ existing_capabilities[1].name = "b"
    /\ Len(new_capabilities) = 2
    /\ new_capabilities[1].name = "b"
    /\ new_capabilities[2].name = "a"
    /\ Len(merged_capabilities) = 2
    /\ merged_capabilities[1].name = "b"
    /\ merged_capabilities[2].name = "a"

\* C18: the count check never fails: when it is reached the merged list is not
\* longer than len(existing) + len(incoming), and no call ends with the
\* 'Capability merge validation failed' error.
C18_CountCheckDead ==
    /\ mpc = "count_check"
       => ~CountCheckFails(merged_capabilities, existing_capabilities,
                           new_capabilities)
    /\ merge_error # "Capability merge validation failed"

\* the count check has passed on a merged list as long as both inputs together
C18_Witness ==
    /\ mpc = "validate"
    /\ idx = 1
    /\ Len(existing_capabilities) = 1
    /\ Len(new_capabilities) = 1
    /\ Len(merged_capabilities) = 2

----------------------------------------------------------------------------
(* Properties of get_next_version, checked under SpecVersion *)

\* C16: under a single writer each call returns the integer stored before the
\* call (0 when the file does not exist) and leaves the stored integer one
\* higher: the k-th call returns start + k - 1, between calls the file holds
\* start + the number of calls made, and the stored integer never falls below it.
C16_SingleWriterCounts ==
    nprocs = 1 =>
        /\ vpc[1] # "raised"
        /\ \A k \in 1 .. Len(returns[1]) : returns[1][k] = vstart + k - 1
        /\ (vpc[1] = "idle" /\ Len(returns[1]) > 0)
           => (file_state = "int" /\ file_value = vstart + Len(returns[1]))
        /\ vpc[1] = "return"
           => (file_state = "int" /\ file_value = version[1] + 1)
        /\ file_state = "int" => file_value >= vstart + Len(returns[1])

\* three calls on a missing file returned 0, 1, 2 and left 3
C16_Witness ==
    /\ nprocs = 1
    /\ vstart = 0
    /\ vpc[1] = "idle"
    /\ returns[1] = <<0, 1, 2>>
    /\ file_state = "int"
    /\ file_value = 3

BothReturned ==
    nprocs = 2 /\ \A p \in Procs : vpc[p] = "idle" /\ Len(returns[p]) = 1

\* C17: two processes, one call each: when both have returned, the stored
\* counter is one or two higher than at the start, and it is only one higher
\* exactly when both returned the same number (a lost update).
C17_TwoWriters ==
    BothReturned =>
        /\ file_state = "int"
        /\ file_value \in {vstart + 1, vstart + 2}
        /\ returns[1][1] = returns[2][1] <=> file_value = vstart + 1
        /\ \A p \in Procs : returns[p][1] \in {vstart, vstart + 1}

\* the interleaving of the claim: both returned the stored number, the counter
\* went up by one only
C17_Witness ==
    /\ BothReturned
    /\ returns[1][1] = vstart
    /\ returns[2][1] = vstart
    /\ file_value = vstart + 1
    /\ vstart > 0

----------------------------------------------------------------------------
(* Properties of main and the remote call functions, checked under SpecMain *)

\* the functions that catch an exception of their remote call, log and re-raise
ReraiseSites ==
    {"create_schema", "create_schema_version", "create_solution_template",
     "create_solution_template_version", "create_target", "review_target",
     "publish_target", "install_target", "create_configuration_api_call",
     "create_or_update_context_with_hierarchies"}
RemoteSites ==
    ReraiseSites \cup {"get_existing_context", "get_configuration_api_call"}

\* C13 as stated: every remote call function but get_configuration_api_call
\* re-raises a failure of its remote call; none of them returns normally then.
C13_Original ==
    \A k \in DOMAIN calls :
        ( /\ calls[k].fn \in RemoteSites \ {"get_configuration_api_call"}
          /\ calls[k].raised )
        => calls[k].result = "raised"

\* C13 as amended: the functions of ReraiseSites re-raise an exception of their
\* remote call; get_configuration_api_call returns None instead, and
\* get_existing_context returns [] for an HTTP 404 and for a non-HTTP exception
\* and re-raises only an HTTP error of another status.
C13_ReraiseOrSentinel ==
    \A k \in DOMAIN calls :
        calls[k].raised =>
            /\ calls[k].fn \in ReraiseSites => calls[k].result = "raised"
            /\ calls[k].fn = "get_configuration_api_call"
               => (calls[k].result = "returned" /\ calls[k].value = None)
            /\ calls[k].fn = "get_existing_context"
               => /\ calls[k].result = "raised"
                     <=> (calls[k].http /\ calls[k].status # 404)
                  /\ calls[k].result = "returned" => calls[k].value = "[]"

\* get_existing_context swallowed a non-HTTP exception, the GET call swallowed
\* one too, and publish_target re-raised its own
C13_Witness ==
    /\ mpos = "caught"
    /\ \E i, j, k \in DOMAIN calls :
        /\ calls[i].fn = "get_existing_context"
        /\ calls[i].raised /\ ~calls[i].http /\ calls[i].result = "returned"
        /\ calls[j].fn = "get_configuration_api_call"
        /\ calls[j].raised /\ calls[j].result = "returned"
        /\ calls[k].fn = "publish_target"
        /\ calls[k].raised /\ calls[k].result = "raised"

\* the create calls a target rests on, and the whole chain of main in its order
CreateSteps ==
    {"create_schema", "create_schema_version", "create_solution_template",
     "create_solution_template_version", "create_target"}
ChainSteps == CreateSteps \cup {"review_target", "publish_target", "install_target"}
ReturnedBefore(fn, k) ==
    \E i \in 1 .. (k - 1) : calls[i].fn = fn /\ calls[i].result = "returned"

\* C15: review_target is invoked only after the five create calls returned;
\* publish_target only right after review_target returned a non-empty id;
\* install_target only right after publish_target returned; and after a
\* failed step of the chain no later step is invoked.
C15_LifecycleOrder ==
    \A k \in DOMAIN calls :
        /\ calls[k].fn = "review_target"
           => \A fn \in CreateSteps : ReturnedBefore(fn, k)
        /\ calls[k].fn = "publish_target"
           => /\ k > 1
              /\ calls[k - 1].fn = "review_target"
              /\ calls[k - 1].result = "returned"
              /\ calls[k - 1].value # ""
              /\ solution_version_id = calls[k - 1].value
        /\ calls[k].fn = "install_target"
           => /\ k > 1
              /\ calls[k - 1].fn = "publish_target"
              /\ calls[k - 1].result = "returned"
        /\ (calls[k].fn \in ChainSteps /\ calls[k].result = "raised")
           => (k = Len(calls) /\ mpos \in {"returned", "caught"})

\* a run that went through review, publish and install
C15_Witness ==
    /\ mpos = "completed"
    /\ Len(calls) >= 3
    /\ calls[Len(calls)].fn = "install_target"
    /\ calls[Len(calls)].result = "returned"
    /\ calls[Len(calls) - 2].fn = "review_target"
    /\ calls[Len(calls) - 2].value = "vid"

LastOf(caps) == caps[Len(caps)]

\* C19: whenever manage_azure_context gets past the merge, the last entry of
\* the list it saves and of the list it sends in the context update is the
\* capability generated in that run.
C19_LastIsGenerated ==
    /\ \A k \in DOMAIN saved :
        /\ generated # <<>>
        /\ saved[k] # <<>>
        /\ LastOf(saved[k]) = Projected(generated[1])
    /\ \A k \in DOMAIN sent :
        /\ generated # <<>>
        /\ sent[k] # <<>>
        /\ LastOf(sent[k]) = Projected(generated[1])

\* C20: create_configuration_api_call either returns the response, for status
\* 200, 201 or 202, or raises; and main reports the PUT as completed
\* successfully only after such a response.
C20_PutReturnsResponseOrRaises ==
    /\ \A k \in DOMAIN calls :
        calls[k].fn = "create_configuration_api_call"
        => \/ calls[k].result = "raised"
           \/ /\ calls[k].result = "returned"
              /\ calls[k].value = "response"
              /\ ~calls[k].raised
              /\ calls[k].status \in {200, 201, 202}
    /\ put_reported_ok
       => \E k \in DOMAIN calls :
            /\ calls[k].fn = "create_configuration_api_call"
            /\ ~calls[k].raised
            /\ calls[k].status \in {200, 201, 202}

TargetCreatedAt(k) ==
    calls[k].fn = "create_target" /\ calls[k].result = "returned"
ReviewInvokedAfter(k) ==
    \E j \in (k + 1) .. Len(calls) : calls[j].fn = "review_target"
\* main is between the target creation and the call of review_target
ConfigurationPending == mpos \in {"config_put", "config_get", "review"}

\* what the log of calls shows of the configuration step
ConfigurationStepOrder ==
    \A k \in DOMAIN calls :
        /\ TargetCreatedAt(k) => (ReviewInvokedAfter(k) \/ ConfigurationPending)
        /\ calls[k].fn = "create_configuration_api_call"
           => /\ k > 1
              /\ TargetCreatedAt(k - 1)
              /\ (calls[k].result = "raised" /\ k < Len(calls))
                 => calls[k + 1].fn = "review_target"
        /\ calls[k].fn = "get_configuration_api_call"
           => /\ k > 1
              /\ calls[k - 1].fn = "create_configuration_api_call"
              /\ calls[k - 1].result = "returned"

\* a step of main cannot stop between the target creation and review_target:
\* the call due there can be made
ConfigurationProceeds ==
    /\ mpos = "config_put" => ENABLED ConfigurationPut
    /\ mpos = "config_get" => ENABLED ConfigurationGet
    /\ mpos = "review" => ENABLED ReviewTarget

\* each step from there moves main on towards review_target, and the step
\* made at "review" is the call of review_target
ConfigurationAdvances ==
    /\ mpos = "config_put" => mpos' \in {"config_get", "review"}
    /\ mpos = "config_get" => mpos' = "review"
    /\ mpos = "review"
       => /\ Len(calls') = Len(calls) + 1
          /\ calls'[Len(calls')].fn = "review_target"

\* C21: in every run of main where create_target returned, review_target is
\* invoked afterwards, whether the configuration PUT raised or returned and
\* whatever the GET gave: main never ends, and never leaves the configuration
\* step, without that call; until the call it is at the PUT, the GET or the
\* review, where its next step can always be made and leads, within three
\* steps, to the call.  And the GET is made only right after a PUT that
\* returned without raising.
C21_ReviewAfterConfiguration ==
    /\ [](ConfigurationStepOrder /\ ConfigurationProceeds)
    /\ [][ConfigurationAdvances]_vars

\* the PUT raised, no GET was made, and review_target was invoked next
C21_Witness ==
    \E k \in DOMAIN calls :
        /\ k > 1 /\ k < Len(calls)
        /\ TargetCreatedAt(k - 1)
        /\ calls[k].fn = "create_configuration_api_call"
        /\ calls[k].result = "raised"
        /\ calls[k + 1].fn = "review_target"
        /\ \A j \in DOMAIN calls : calls[j].fn # "get_configuration_api_call"

\* C22: get_configuration_api_call never raises to its caller; it returns the
\* response exactly when the GET answered with status 200, and None for every
\* other status code and for every exception of its token or request call.
C22_GetReturnsResponseIff200 ==
    \A k \in DOMAIN calls :
        calls[k].fn = "get_configuration_api_call"
        => /\ calls[k].result = "returned"
           /\ calls[k].value \in {"response", None}
           /\ calls[k].value = "response"
              <=> (~calls[k].raised /\ calls[k].status = 200)

====
